---------------------------- MODULE Spec2Model ----------------------------
(***************************************************************************)
(* A model of watcher.py: the EMA golden-cross watcher.                    *)
(*                                                                         *)
(* Floating-point prices are modelled as exact rationals n/d (d > 0), and  *)
(* a missing value (pandas NaN) as the value NaN below.  Rounding is not   *)
(* modelled.                                                               *)
(***************************************************************************)
EXTENDS Integers, Sequences, FiniteSets, TLC

\* ------------------------------------------------------------- bounds ---
MaxLen == 5          \* longest upstream data array / candle series
NumTokens == 2       \* number of configured tokens

\* The lookback run_once passes to detect_strict_cross.
Lookback == 3

\* The (EMA_FAST, EMA_SLOW) pairs EMA_WINDOWS configures in the model, the
\* window sizes calc_ema_series is called with, and the field strings
\* upstream sends.
WindowConfigs == {<<1, 2>>, <<2, 3>>, <<3, 1>>}
Windows == {1, 2, 3}
TsStrings == {"1", "2"}
CloseStrings == {"1", "2", "x"}

\* parse_tokens(TOKENS_RAW): the configured tokens, named 1, 2, ...
TOKENS == [i \in 1..NumTokens |-> i]

\* ------------------------------------------------------------- values ---
NaN == [def |-> FALSE, n |-> 0, d |-> 1]

Num(n, d) == [def |-> TRUE, n |-> n, d |-> d]

notna(v) == v.def

\* a <= b and a > b on defined rationals (denominators are positive)
Le(a, b) == a.n * b.d <= b.n * a.d

Gt(a, b) == a.n * b.d > b.n * a.d

SameNum(a, b) == a.def /\ b.def /\ a.n * b.d = b.n * a.d

RECURSIVE Pow(_, _)
Pow(b, e) == IF e = 0 THEN 1 ELSE b * Pow(b, e - 1)

\* str -> number, as astype(float) / astype(int) do: a string that is no
\* number makes the conversion raise.
CanParse(s) == s \in {"1", "2", "3"}

ParseNum(s) == CASE s = "1" -> 1 [] s = "2" -> 2 [] s = "3" -> 3

\* ------------------------------------------------------ okx_get_candles ---
Entries == [ts : TsStrings, close : CloseStrings]

DataArrays == UNION {[1..n -> Entries] : n \in 0..MaxLen}

\* What the HTTP exchange can produce.  transport: requests.get raises;
\* http_error: raise_for_status raises; not_json: resp.json() raises;
\* ok: a JSON object with "code" and "data".
Responses ==
    {[status |-> s, code |-> "0", data |-> <<>>] :
        s \in {"transport", "http_error", "not_json"}}
    \cup {[status |-> "ok", code |-> "50011", data |-> <<>>]}
    \cup {[status |-> "ok", code |-> "0", data |-> d] : d \in DataArrays}

\* astype(float) on the numeric columns and astype(int) on ts
RowsParse(data) ==
    \A i \in 1..Len(data) : CanParse(data[i].ts) /\ CanParse(data[i].close)

ParseRows(data) ==
    [i \in 1..Len(data) |->
        [ts |-> ParseNum(data[i].ts), close |-> ParseNum(data[i].close)]]

\* every way of putting row c into the ts-ascending frame f that keeps it
\* ascending
Inserts(f, c) ==
    {SubSeq(f, 1, p) \o <<c>> \o SubSeq(f, p + 1, Len(f)) :
        p \in {q \in 0..Len(f) :
                 /\ (q >= 1 => f[q].ts <= c.ts)
                 /\ (q < Len(f) => c.ts <= f[q + 1].ts)}}

\* sort_values with a fault: the rows are returned in upstream order
sort_values_none(rows) == {rows}

\* sort_values("ts", ascending=True) with pandas' default, unstable sort:
\* any reordering of the rows that is ascending by ts.
RECURSIVE sort_values(_)
sort_values(rows) ==
    IF rows = <<>> THEN {<<>>}
    ELSE UNION {Inserts(f, Head(rows)) : f \in sort_values(Tail(rows))}

\* The frames okx_get_candles can return for a response; <<>> is the empty
\* DataFrame.
okx_get_candles(resp) ==
    IF resp.status # "ok" THEN {<<>>}
    ELSE IF resp.code # "0" THEN {<<>>}
    ELSE IF ~RowsParse(resp.data) THEN {<<>>}
    ELSE sort_values(ParseRows(resp.data))

\* ------------------------------------------------------ calc_ema_series ---
\* ta's EMAIndicator(close, window).ema_indicator() is
\* close.ewm(span=window, min_periods=window, adjust=False).mean():
\*   y[0] = x[0],  y[i] = (1 - k) * y[i-1] + k * x[i],  k = 2 / (window + 1),
\* reported as NaN while fewer than window observations were seen.
\* EwmNum(close, w, i) is the numerator of y[i-1] (1-based i) over the
\* denominator (w + 1)^(i - 1).
RECURSIVE EwmNum(_, _, _)
EwmNum(close, w, i) ==
    IF i = 1 THEN close[1]
    ELSE (w - 1) * EwmNum(close, w, i - 1) + 2 * close[i] * Pow(w + 1, i - 2)

EwmValue(close, w, i) == Num(EwmNum(close, w, i), Pow(w + 1, i - 1))

RECURSIVE SumTo(_, _)
SumTo(close, k) == IF k = 0 THEN 0 ELSE close[k] + SumTo(close, k - 1)

\* calc_ema_series with a fault: an EMA seeded with the simple mean of the first
\* window closes (numerator over the denominator w * (w + 1)^(i - w))
RECURSIVE SmaSeededNum(_, _, _)
SmaSeededNum(close, w, i) ==
    IF i = w THEN SumTo(close, w)
    ELSE (w - 1) * SmaSeededNum(close, w, i - 1)
         + 2 * close[i] * w * Pow(w + 1, i - w - 1)

calc_ema_series_sma(close, window) ==
    [i \in 1..Len(close) |->
        IF i < window THEN NaN
        ELSE Num(SmaSeededNum(close, window, i),
                 window * Pow(window + 1, i - window))]

calc_ema_series(close, window) ==
    [i \in 1..Len(close) |->
        IF i < window THEN NaN ELSE EwmValue(close, window, i)]

\* -------------------------------------------------- detect_strict_cross ---
\* df.iloc[k] for a frame of n rows: position k (negative: from the end),
\* IndexError when k is outside -n .. n-1.
ILocInBounds(n, k) == -n <= k /\ k <= n - 1

ILoc(col, k) == IF k < 0 THEN col[Len(col) + k + 1] ELSE col[k + 1]

IsCross(prevFast, prevSlow, currFast, currSlow) ==
    /\ notna(prevFast) /\ notna(prevSlow) /\ notna(currFast) /\ notna(currSlow)
    /\ Le(prevFast, prevSlow)
    /\ Gt(currFast, currSlow)

\* the loop "for i in range(-lookback, 0)" from offset i on
RECURSIVE DetectFrom(_, _, _, _)
DetectFrom(fast, slow, i, signals) ==
    IF i >= 0 THEN [raised |-> FALSE, signals |-> signals]
    ELSE IF ~ILocInBounds(Len(fast), i - 1) \/ ~ILocInBounds(Len(fast), i)
         THEN [raised |-> TRUE, signals |-> <<>>]
    ELSE DetectFrom(fast, slow, i + 1,
            IF IsCross(ILoc(fast, i - 1), ILoc(slow, i - 1),
                       ILoc(fast, i), ILoc(slow, i))
            THEN Append(signals, i) ELSE signals)

detect_strict_cross(fast, slow, lookback) ==
    DetectFrom(fast, slow, -lookback, <<>>)


\* ---------------------------------------------------------------- state ---
VARIABLES
    EMA_FAST, EMA_SLOW,  \* the configured windows (lines 40-41)
    STOP,                \* the stop flag (line 151)
    pc,                  \* where main / run_once stands
    idx,                 \* position of run_once's "for t in tokens"
    df,                  \* the close column of the frame fetched for token idx
    ema,                 \* the two EMA columns of df, <<>> while not computed
    det,                 \* what detect_strict_cross did in this token's step
    \* observers of the run (no action's guard reads them)
    resp_kind,           \* how the last fetch ended
    sent,                \* send_telegram calls of this token's step
    delayed,             \* per token: per-token delays taken in this cycle
    processed,           \* tokens whose step began in this cycle, in order
    stopPc,              \* where main stood when the flag was first set
                         \* ("cycle": anywhere inside run_once)
    callsSinceStop,      \* run_once calls made with the flag already set
    returnsSinceStop,    \* run_once returns with the flag already set
    lastAlerted,         \* token of the latest completed step that alerted
    \* direct calls of the pure functions
    fnOp, fnIn, fnOut

cfgVars == <<EMA_FAST, EMA_SLOW>>

stepVars == <<df, ema, det, resp_kind, sent>>

stopVars == <<stopPc, callsSinceStop, returnsSinceStop>>

fnVars == <<fnOp, fnIn, fnOut>>

vars == <<EMA_FAST, EMA_SLOW, STOP, pc, idx, df, ema, det, resp_kind,
          sent, delayed, processed, stopPc, callsSinceStop, returnsSinceStop,
          lastAlerted, fnOp, fnIn, fnOut>>

NoDetect == [called |-> FALSE, raised |-> FALSE, signals |-> <<>>]

NoDelays == [i \in 1..NumTokens |-> 0]

Running == pc \notin {"done", "crashed", "off"}

InCycle == pc \in {"fetch", "check", "detect", "alert", "skip_sleep", "sleep"}

\* --------------------------------------------------------------- fetch ---
CloseColumn(frame) == [i \in 1..Len(frame) |-> frame[i].close]

ResponseKind(resp) ==
    IF resp.status # "ok" THEN resp.status
    ELSE IF resp.code # "0" THEN "app_error"
    ELSE IF ~RowsParse(resp.data) THEN "bad_rows"
    ELSE IF resp.data = <<>> THEN "empty"
    ELSE "ok"

\* what run_once can get from its call of okx_get_candles: the kind of
\* response and the close column of the returned frame
FetchOutcomes ==
    UNION {{[kind |-> ResponseKind(r), close |-> CloseColumn(f)] :
               f \in okx_get_candles(r)} : r \in Responses}

\* ------------------------------------------------------------ run_once ---
\* InsufficientHistory with a fault: the length test is dropped
InsufficientHistoryEmptyOnly(frame) == frame = <<>>

InsufficientHistory(frame) == frame = <<>> \/ Len(frame) < EMA_SLOW

\* ShouldAlert with a fault: a token alerted last is not alerted again
ShouldAlertOnce(crosses) == crosses # <<>> /\ lastAlerted # TOKENS[idx]

\* "if crosses:"
ShouldAlert(crosses) == crosses # <<>>

\* the text run_once builds: one message with all matched offsets
Message(t, crosses) ==
    [name |-> t,
     price |-> df[Len(df)],
     e_fast |-> ema.fast[Len(df)],
     e_slow |-> ema.slow[Len(df)],
     offsets |-> crosses]

\* BuildAlerts with a fault: one message per matched offset
BuildAlertsPerEvent(t, crosses) ==
    [i \in 1..Len(crosses) |-> Message(t, <<crosses[i]>>)]

BuildAlerts(t, crosses) == <<Message(t, crosses)>>

\* send_telegram returns None whatever happens: nothing configured (no
\* request made), delivered, a non-200 answer, or an exception (caught).
SendOutcomes == {"delivered", "not_configured", "rejected", "exception"}

Messages(calls) == [i \in 1..Len(calls) |-> calls[i].msg]

\* line 162
Fetch ==
    /\ pc = "fetch"
    /\ \E o \in FetchOutcomes :
          /\ df' = o.close
          /\ resp_kind' = o.kind
    /\ ema' = <<>>
    /\ det' = NoDetect
    /\ sent' = <<>>
    /\ processed' = Append(processed, TOKENS[idx])
    /\ pc' = "check"
    /\ UNCHANGED <<cfgVars, STOP, idx, delayed, stopVars, lastAlerted, fnVars>>

\* lines 163-168: skip the token, or compute the two EMA columns
CheckHistory ==
    /\ pc = "check"
    /\ IF InsufficientHistory(df)
       THEN /\ pc' = "skip_sleep"
            /\ ema' = ema
       ELSE /\ ema' = [fast |-> calc_ema_series(df, EMA_FAST),
                       slow |-> calc_ema_series(df, EMA_SLOW)]
            /\ pc' = "detect"
    /\ UNCHANGED <<cfgVars, STOP, idx, df, det, resp_kind, sent,
                   delayed, processed, stopVars, lastAlerted, fnVars>>

\* line 170; an IndexError raised there is caught nowhere: it leaves
\* run_once and main
Detect ==
    /\ pc = "detect"
    /\ LET r == detect_strict_cross(ema.fast, ema.slow, Lookback)
       IN /\ det' = [called |-> TRUE, raised |-> r.raised, signals |-> r.signals]
          /\ pc' = IF r.raised THEN "crashed" ELSE "alert"
    /\ UNCHANGED <<cfgVars, STOP, idx, df, ema, resp_kind, sent,
                   delayed, processed, stopVars, lastAlerted, fnVars>>

\* lines 171-186
Alert ==
    /\ pc = "alert"
    /\ IF ShouldAlert(det.signals)
       THEN \E o \in SendOutcomes :
              sent' = [i \in 1..Len(BuildAlerts(TOKENS[idx], det.signals)) |->
                         [msg |-> BuildAlerts(TOKENS[idx], det.signals)[i],
                          delivery |-> o]]
       ELSE sent' = sent
    /\ pc' = "sleep"
    /\ UNCHANGED <<cfgVars, STOP, idx, df, ema, det, resp_kind,
                   delayed, processed, stopVars, lastAlerted, fnVars>>

\* the for loop moves on: the next token, or run_once returns (its locals
\* are gone) and main is at line 196.  main's counter "loop" is only written
\* to the log and is not modelled.
NextToken ==
    /\ IF idx < NumTokens
       THEN /\ idx' = idx + 1
            /\ pc' = "fetch"
            /\ UNCHANGED <<stepVars, returnsSinceStop>>
       ELSE /\ idx' = idx
            /\ pc' = "post_check"
            /\ df' = <<>>
            /\ ema' = <<>>
            /\ det' = NoDetect
            /\ resp_kind' = "none"
            /\ sent' = <<>>
            /\ returnsSinceStop' = returnsSinceStop + (IF STOP THEN 1 ELSE 0)
    /\ UNCHANGED <<cfgVars, STOP, processed, stopPc, callsSinceStop, fnVars>>

\* SkipSleep with a fault: "continue" without the sleep
SkipSleepNoDelay ==
    /\ pc = "skip_sleep"
    /\ delayed' = delayed
    /\ lastAlerted' = lastAlerted
    /\ NextToken

\* line 164: time.sleep(REQUEST_DELAY_SEC); continue
SkipSleep ==
    /\ pc = "skip_sleep"
    /\ delayed' = [delayed EXCEPT ![idx] = @ + 1]
    /\ lastAlerted' = lastAlerted
    /\ NextToken

\* line 188: time.sleep(REQUEST_DELAY_SEC)
Sleep ==
    /\ pc = "sleep"
    /\ delayed' = [delayed EXCEPT ![idx] = @ + 1]
    /\ lastAlerted' = IF sent # <<>> THEN TOKENS[idx] ELSE lastAlerted
    /\ NextToken

\* ---------------------------------------------------------------- main ---
\* LoopCondition with a fault: "while True"
LoopConditionAlways == TRUE

\* "while not STOP"
LoopCondition == ~STOP

\* line 192
LoopCheck ==
    /\ pc = "loop_check"
    /\ IF LoopCondition
       THEN pc' = "call"
       ELSE pc' = "done"
    /\ UNCHANGED <<cfgVars, STOP, idx, stepVars, delayed, processed,
                   stopVars, lastAlerted, fnVars>>

\* lines 193-195: run_once(TOKENS) is entered
CallRunOnce ==
    /\ pc = "call"
    /\ callsSinceStop' = callsSinceStop + (IF STOP THEN 1 ELSE 0)
    /\ delayed' = NoDelays
    /\ processed' = <<>>
    /\ idx' = 1
    /\ IF NumTokens = 0
       THEN /\ pc' = "post_check"
            /\ returnsSinceStop' = returnsSinceStop + (IF STOP THEN 1 ELSE 0)
       ELSE /\ pc' = "fetch"
            /\ UNCHANGED returnsSinceStop
    /\ UNCHANGED <<cfgVars, STOP, stepVars, stopPc, lastAlerted, fnVars>>

\* lines 197-198
PostCheck ==
    /\ pc = "post_check"
    /\ pc' = IF STOP THEN "done" ELSE "poll_sleep"
    /\ UNCHANGED <<cfgVars, STOP, idx, stepVars, delayed, processed,
                   stopVars, lastAlerted, fnVars>>

\* line 200: time.sleep(POLL_INTERVAL_SEC)
PollSleep ==
    /\ pc = "poll_sleep"
    /\ pc' = "loop_check"
    /\ UNCHANGED <<cfgVars, STOP, idx, stepVars, delayed, processed,
                   stopVars, lastAlerted, fnVars>>

\* the signal handler, run between any two steps of main
HandleStop ==
    /\ Running
    /\ STOP' = TRUE
    /\ stopPc' = IF STOP THEN stopPc ELSE IF InCycle THEN "cycle" ELSE pc
    /\ UNCHANGED <<cfgVars, pc, idx, stepVars, delayed, processed,
                   callsSinceStop, returnsSinceStop, lastAlerted, fnVars>>

Init ==
    /\ \E c \in WindowConfigs : EMA_FAST = c[1] /\ EMA_SLOW = c[2]
    /\ STOP = FALSE
    /\ pc = "loop_check"
    /\ idx = 1
    /\ df = <<>>
    /\ ema = <<>>
    /\ det = NoDetect
    /\ resp_kind = "none"
    /\ sent = <<>>
    /\ delayed = NoDelays
    /\ processed = <<>>
    /\ stopPc = "none"
    /\ callsSinceStop = 0
    /\ returnsSinceStop = 0
    /\ lastAlerted = 0
    /\ fnOp = "idle"
    /\ fnIn = <<>>
    /\ fnOut = <<>>

MainStep ==
    \/ LoopCheck
    \/ CallRunOnce
    \/ Fetch
    \/ CheckHistory
    \/ Detect
    \/ Alert
    \/ SkipSleep
    \/ Sleep
    \/ PostCheck
    \/ PollSleep

Next == MainStep \/ HandleStop

Spec == Init /\ [][Next]_vars

\* main with the scheduling the interpreter gives it: main's next step is
\* always taken in the end (sleeps and requests are bounded by timeouts)
LiveSpec == Init /\ [][Next]_vars /\ WF_vars(MainStep)

\* ------------------------------------------- the pure functions, called ---
ClosePrices == {ParseNum(s) : s \in {c \in CloseStrings : CanParse(c)}}

CloseSeries == UNION {[1..n -> ClosePrices] : n \in 0..MaxLen}

IndicatorValues == {NaN, Num(1, 1), Num(2, 1)}

IndicatorFrames ==
    UNION {[fast : [1..n -> IndicatorValues], slow : [1..n -> IndicatorValues]] :
             n \in 0..(Lookback + 1)}

mainVars == <<EMA_FAST, EMA_SLOW, STOP, pc, idx, df, ema, det,
              resp_kind, sent, delayed, processed, stopPc, callsSinceStop,
              returnsSinceStop, lastAlerted>>

CallGetCandles ==
    /\ fnOp = "idle"
    /\ \E r \in Responses :
         \E f \in okx_get_candles(r) :
            /\ fnIn' = r
            /\ fnOut' = f
    /\ fnOp' = "okx_get_candles"
    /\ UNCHANGED mainVars

CallCalcEma ==
    /\ fnOp = "idle"
    /\ \E c \in CloseSeries :
         \E w \in Windows :
            /\ fnIn' = [close |-> c, window |-> w]
            /\ fnOut' = calc_ema_series(c, w)
    /\ fnOp' = "calc_ema_series"
    /\ UNCHANGED mainVars

CallDetect ==
    /\ fnOp = "idle"
    /\ \E fr \in IndicatorFrames :
         \E L \in 1..Lookback :
            /\ fnIn' = [fast |-> fr.fast, slow |-> fr.slow, lookback |-> L]
            /\ fnOut' = detect_strict_cross(fr.fast, fr.slow, L)
    /\ fnOp' = "detect_strict_cross"
    /\ UNCHANGED mainVars

\* the module imported, main not started
FnInit ==
    /\ EMA_FAST = 1
    /\ EMA_SLOW = 2
    /\ STOP = FALSE
    /\ pc = "off"
    /\ idx = 1
    /\ df = <<>>
    /\ ema = <<>>
    /\ det = NoDetect
    /\ resp_kind = "none"
    /\ sent = <<>>
    /\ delayed = NoDelays
    /\ processed = <<>>
    /\ stopPc = "none"
    /\ callsSinceStop = 0
    /\ returnsSinceStop = 0
    /\ lastAlerted = 0
    /\ fnOp = "idle"
    /\ fnIn = <<>>
    /\ fnOut = <<>>

FnNext == CallGetCandles \/ CallCalcEma \/ CallDetect

FnSpec == FnInit /\ [][FnNext]_vars

\* =============================================================== claims ===

\* ---- C1 -----------------------------------------------------------------
\* the bar at offset i of a column, undefined where the column has no such bar
BarAt(col, i) ==
    IF Len(col) + i + 1 \in 1..Len(col) THEN col[Len(col) + i + 1] ELSE NaN

CrossOffsets(fast, slow, L) ==
    {i \in (-L)..(-1) :
        LET pf == BarAt(fast, i - 1)
            ps == BarAt(slow, i - 1)
            cf == BarAt(fast, i)
            cs == BarAt(slow, i)
        IN /\ pf.def /\ ps.def /\ cf.def /\ cs.def
           /\ pf.n * ps.d <= ps.n * pf.d
           /\ cf.n * cs.d > cs.n * cf.d}

RECURSIVE Ascending(_)
Ascending(S) ==
    IF S = {} THEN <<>>
    ELSE LET m == CHOOSE x \in S : \A y \in S : x <= y
         IN <<m>> \o Ascending(S \ {m})

\* C1: for any two aligned indicator series and lookback L,
\* detect_strict_cross returns (raising nothing) exactly the offsets i in
\* -L..-1 whose four values are defined with prev.fast <= prev.slow and
\* curr.fast > curr.slow, in ascending order; an offset with an undefined
\* value is skipped with no event and no error.
C1_DetectReturnsExactOffsets ==
    fnOp = "detect_strict_cross" =>
        /\ ~fnOut.raised
        /\ fnOut.signals =
             Ascending(CrossOffsets(fnIn.fast, fnIn.slow, fnIn.lookback))

\* ---- C2 -----------------------------------------------------------------
\* e[i] = close[i] * k + e[i-1] * (1 - k), k = 2 / (w + 1), on rationals
FollowsRecurrence(e, close, w, i) ==
    SameNum(e[i], Num(2 * close[i] * e[i - 1].d + (w - 1) * e[i - 1].n,
                      (w + 1) * e[i - 1].d))

EmaShape(e, close, w) ==
    /\ Len(e) = Len(close)
    /\ \A i \in 1..Len(e) : notna(e[i]) <=> i >= w
    /\ \A i \in (w + 1)..Len(close) : FollowsRecurrence(e, close, w, i)

\* the weights of the recursion started at close[1], over (w + 1)^(w - 1):
\* (w-1)^(w-1) for close[1] and 2 (w-1)^(w-j) (w+1)^(j-2) for close[j], j >= 2
RECURSIVE WeightedFrom(_, _, _)
WeightedFrom(close, w, j) ==
    IF j > w THEN 0
    ELSE 2 * Pow(w - 1, w - j) * Pow(w + 1, j - 2) * close[j]
         + WeightedFrom(close, w, j + 1)

RecursiveSeed(close, w) ==
    Num(Pow(w - 1, w - 1) * close[1] + WeightedFrom(close, w, 2),
        Pow(w + 1, w - 1))

\* C2 as stated: same length, undefined at exactly indices 0..w-2, the
\* arithmetic mean of the first w closes at index w-1, the recurrence above it.
C2_SmaSeeded ==
    fnOp = "calc_ema_series" =>
        /\ EmaShape(fnOut, fnIn.close, fnIn.window)
        /\ Len(fnIn.close) >= fnIn.window =>
             SameNum(fnOut[fnIn.window],
                     Num(SumTo(fnIn.close, fnIn.window), fnIn.window))

\* C2 amended: same length, undefined at exactly indices 0..w-2, the
\* recurrence for every i >= w, and at index w-1 the value of that same
\* recurrence started from ema[0] = closes[0] (not the arithmetic mean).
C2_RecursionSeeded ==
    fnOp = "calc_ema_series" =>
        /\ EmaShape(fnOut, fnIn.close, fnIn.window)
        /\ Len(fnIn.close) >= fnIn.window =>
             SameNum(fnOut[fnIn.window],
                     RecursiveSeed(fnIn.close, fnIn.window))

C2_SeedDiffersFromMean ==
    /\ fnOp = "calc_ema_series"
    /\ fnIn.window = 2
    /\ Len(fnIn.close) >= 3
    /\ fnIn.close[1] = 1
    /\ fnIn.close[2] = 2
    /\ SameNum(fnOut[2], Num(5, 3))
    /\ notna(fnOut[3])

\* ---- C3 -----------------------------------------------------------------
FetchFailed == resp_kind \notin {"ok", "none"}

TooShort == resp_kind = "ok" /\ Len(df) < EMA_SLOW

InTokenStep ==
    pc \in {"check", "skip_sleep", "detect", "alert", "sleep", "crashed"}

\* C3: a token whose fetch failed (transport, HTTP status, application code,
\* unparseable or empty payload) or whose series is shorter than the slow
\* window gets no indicator and no alert, raises nothing, and the cycle goes
\* on to the per-token delay and then to the next token (or returns).
C3_FailedOrShortTokenSkipped ==
    /\ []((InTokenStep /\ (FetchFailed \/ TooShort)) =>
            /\ pc \in {"check", "skip_sleep"}
            /\ ema = <<>>
            /\ ~det.called
            /\ sent = <<>>
            /\ (FetchFailed => df = <<>>))
    /\ [][(pc = "check" /\ (FetchFailed \/ TooShort) /\ pc' # pc) =>
            pc' = "skip_sleep"]_vars
    /\ [][(pc = "skip_sleep" /\ pc' # pc) =>
            /\ delayed'[idx] = delayed[idx] + 1
            /\ IF idx < NumTokens
               THEN pc' = "fetch" /\ idx' = idx + 1
               ELSE pc' = "post_check"]_vars

C3_ShortSeriesSkipped ==
    /\ pc = "fetch"
    /\ idx = 2
    /\ resp_kind = "ok"
    /\ df # <<>>
    /\ Len(df) < EMA_SLOW
    /\ ema = <<>>
    /\ sent = <<>>
    /\ delayed[1] = 1

\* ---- C4 -----------------------------------------------------------------
DetectReturnedCrosses == det.called /\ ~det.raised /\ det.signals # <<>>

\* C4: in a token's step the alert sink is invoked exactly once when
\* detect_strict_cross returned a non-empty list and not at all otherwise,
\* and the one message carries exactly the matched offsets of that token.
C4_OneAlertPerToken ==
    /\ Len(sent) <= 1
    /\ pc \notin {"check", "detect", "alert"} =>
         Len(sent) = IF DetectReturnedCrosses THEN 1 ELSE 0
    /\ sent # <<>> => sent[1].msg.offsets = det.signals
    /\ (pc = "sleep" /\ sent # <<>>) => sent[1].msg.name = TOKENS[idx]

C4_TwoOffsetsOneMessage ==
    /\ pc = "sleep"
    /\ det.signals = <<-3, -1>>
    /\ Len(sent) = 1
    /\ sent[1].msg.offsets = <<-3, -1>>

\* ---- C5 -----------------------------------------------------------------
\* C5: the process ends only by seeing the stop flag at a cycle boundary:
\* whatever the windows and the fetched series, no error escapes run_once or
\* main.
C5_NoErrorEscapes ==
    /\ pc # "crashed"
    /\ pc = "done" => STOP

\* ---- C6 -----------------------------------------------------------------
\* C6: once a cycle has started, run_once processes every token exactly once
\* in the configured order: when control leaves run_once, every token's step
\* has begun, in order.
C6_EveryTokenProcessedOnce ==
    /\ processed = SubSeq(TOKENS, 1, Len(processed))
    /\ pc \in {"post_check", "crashed"} => processed = TOKENS

\* ---- C7 -----------------------------------------------------------------
\* C7: once the stop flag is set main terminates; after the flag is set at
\* most one cycle completes, a cycle is started only when the loop check had
\* already passed, and the flag is never reset.
C7_StopEndsMain ==
    /\ STOP ~> (pc \in {"done", "crashed"})
    /\ [](/\ returnsSinceStop <= 1
          /\ callsSinceStop <= 1
          /\ (callsSinceStop = 1 => stopPc = "call")
          /\ (returnsSinceStop = 1 => stopPc \in {"call", "cycle"}))
    /\ [][STOP => STOP']_vars

C7_CycleAfterStopThenDone ==
    /\ pc = "done"
    /\ stopPc = "call"
    /\ callsSinceStop = 1
    /\ returnsSinceStop = 1

\* ---- C8 -----------------------------------------------------------------
\* C8: in every cycle each token's step is followed by exactly one per-token
\* delay before the next token's fetch, whatever the step's outcome: at every
\* point of token idx's step each earlier token has been delayed exactly once
\* and no later one, and at run_once's return every token has.
C8_OneDelayPerToken ==
    /\ \A k \in 1..NumTokens : delayed[k] <= 1
    /\ InCycle =>
         \A k \in 1..NumTokens :
            /\ (k < idx => delayed[k] = 1)
            /\ (k >= idx => delayed[k] = 0)
    /\ pc = "post_check" => \A k \in 1..NumTokens : delayed[k] = 1

C8_DelayAfterFailedFetch ==
    /\ pc = "fetch"
    /\ idx = 2
    /\ resp_kind = "transport"
    /\ delayed[1] = 1

\* ---- C9 -----------------------------------------------------------------
Occurrences(f, row) == Cardinality({i \in 1..Len(f) : f[i] = row})

\* C9 as stated: a non-empty returned series is strictly ascending by
\* timestamp (no duplicates) with one candle per upstream entry.
C9_StrictlyAscending ==
    (fnOp = "okx_get_candles" /\ fnOut # <<>>) =>
        /\ \A i \in 1..(Len(fnOut) - 1) : fnOut[i].ts < fnOut[i + 1].ts
        /\ Len(fnOut) = Len(fnIn.data)

\* C9 amended: a non-empty returned series is ascending by timestamp, not
\* necessarily strictly, and holds exactly the upstream entries, one candle
\* each; it has no duplicate timestamp exactly when upstream has none.
C9_AscendingOnePerEntry ==
    (fnOp = "okx_get_candles" /\ fnOut # <<>>) =>
        /\ \A i \in 1..(Len(fnOut) - 1) : fnOut[i].ts <= fnOut[i + 1].ts
        /\ Len(fnOut) = Len(fnIn.data)
        /\ \A i \in 1..Len(fnOut) :
              Occurrences(fnOut, fnOut[i]) =
                 Occurrences(ParseRows(fnIn.data), fnOut[i])
        /\ (\A i \in 1..(Len(fnOut) - 1) : fnOut[i].ts < fnOut[i + 1].ts)
           <=> (\A i, j \in 1..Len(fnIn.data) :
                   i # j => ParseNum(fnIn.data[i].ts) # ParseNum(fnIn.data[j].ts))

C9_RepeatedTimestampKept ==
    /\ fnOp = "okx_get_candles"
    /\ Len(fnIn.data) = 3
    /\ fnIn.data[1].ts = "2"
    /\ fnIn.data[2].ts = "1"
    /\ fnIn.data[3].ts = "2"
    /\ Len(fnOut) = 3
    /\ fnOut[1].ts = 1
    /\ fnOut[2].ts = 2
    /\ fnOut[3].ts = 2

\* ---- C10 ----------------------------------------------------------------
\* the alert a step sends, from the windows, the token and the series alone
AlertsFor(fast_w, slow_w, t, close) ==
    IF close = <<>> \/ Len(close) < slow_w THEN <<>>
    ELSE LET f == calc_ema_series(close, fast_w)
             s == calc_ema_series(close, slow_w)
             r == detect_strict_cross(f, s, Lookback)
         IN IF r.raised \/ r.signals = <<>> THEN <<>>
            ELSE <<[name |-> t,
                    price |-> close[Len(close)],
                    e_fast |-> f[Len(close)],
                    e_slow |-> s[Len(close)],
                    offsets |-> r.signals]>>

\* C10: no state is carried between cycles: what a token's step sends is a
\* function of the windows, the token and the series fetched in that step
\* only, so a cross still inside the lookback is alerted again in a later
\* cycle, whatever earlier steps alerted or failed.
C10_AlertDependsOnlyOnThisFetch ==
    pc \in {"skip_sleep", "sleep", "crashed"} =>
        Messages(sent) = AlertsFor(EMA_FAST, EMA_SLOW, TOKENS[idx], df)

C10_AlertedAgain ==
    /\ pc = "sleep"
    /\ sent # <<>>
    /\ lastAlerted = TOKENS[idx]
====
